---- MODULE Spec2Model ----
(***************************************************************************)
(* Model of pygovee/bluetooth/lightstrip_ble.py: the BLEController facade, *)
(* its Queue and the _BLEThread worker that owns the BLE connection.       *)
(*                                                                         *)
(* Threads: the worker thread, the owner thread (constructs, configures    *)
(* and disconnects the controller) and a producer thread that only calls   *)
(* the send operations.  Time is a discrete clock in seconds.              *)
(*                                                                         *)
(* Specifications:                                                         *)
(*   Spec            the owner thread alone, every operation               *)
(*   SpecConcurrent  owner and producer sending concurrently               *)
(*   SpecTimed       one-second clock ticks, for the keep-alive timing     *)
(***************************************************************************)
EXTENDS Integers, Sequences, FiniteSets, TLC

(* ---------------- bounds ---------------- *)
MaxSends == 3              \* frames put on the queue, Spec
MaxKeepAlives == 1         \* keep-alive frames written, Spec
MaxConcurrentSends == 3    \* frames put on the queue, SpecConcurrent
MaxTimedSends == 2         \* frames put on the queue, SpecTimed
MaxTimedKeepAlives == 2    \* keep-alive frames written, SpecTimed
MaxFairSends == 2          \* frames put on the queue, FairSpec
MaxFairKeepAlives == 1     \* keep-alive frames written, FairSpec
MaxOverlong == 2           \* bytes by which a payload exceeds the limit, SpecCodec
MaxOutside == 3            \* distance of a percentage from [0, 100], SpecCodec
MaxFadeAmount == 5         \* fade_amt, SpecFade
MaxFadeSpeed == 3          \* fade_speed, SpecFade

(* ---------------- program constants ---------------- *)
KeepAliveInterval == 3
MaxPayload == 17
FrameBody == 19
MaxBrightness == 100

Owner == "owner"
Producer == "producer"
Callers == {Owner, Producer}

(* the clocks saturate one second past the keep-alive interval *)
TimerCap == KeepAliveInterval + 1

(* values the owner passes to set_brightness *)
BrightnessInputs == {150}

(* arguments of the calls of SpecCodec *)
CmdInputs == {-1, 0, 1, 51, 255, 256}
PayloadSeeds == {0, 37, 255}
Payload(n, k) == [i \in 1..n |-> (k * i) % 256]
PayloadInputs == {Payload(n, k) : n \in 0..(MaxPayload + MaxOverlong), k \in PayloadSeeds}
PercentInputs == (0 - MaxOutside)..(MaxBrightness + MaxOutside)
ByteInputs == {-1, 0, 128, 255, 256}

(* arguments of fade() in SpecFade *)
FadeAmounts == 0..MaxFadeAmount
FadeSpeeds == 1..MaxFadeSpeed

(* ---------------- FrameCodec (pure) ---------------- *)
RECURSIVE BitXor(_, _)
BitXor(a, b) ==
    IF a = 0 /\ b = 0 THEN 0
    ELSE (((a % 2) + (b % 2)) % 2) + (2 * BitXor(a \div 2, b \div 2))

RECURSIVE Checksum(_)
Checksum(s) == IF s = <<>> THEN 0 ELSE BitXor(Head(s), Checksum(Tail(s)))

Zeros(n) == [i \in 1..n |-> 0]

(* faulty variant: the frame is not padded *)
PadAndSum_Unpadded(head) == Append(head, (Checksum(head)) % 256)
(* frame += zeros(19 - len); frame += checksum & 0xFF *)
PadAndSum(head) ==
    LET body == head \o Zeros(FrameBody - Len(head))
    IN  Append(body, (Checksum(body)) % 256)

(* lines 102-113 of _send *)
Encode(cmd, payload) == PadAndSum(<<51, cmd % 256>> \o payload)

(* lines 41-46 of work *)
KeepAliveFrame == PadAndSum(<<170, 1>>)

(* faulty variant: one byte more is let through *)
TooLong_ByOne(n) == n > MaxPayload + 1
(* line 99: len(payload) > 17 *)
TooLong(n) == n > MaxPayload

(* faulty variant: 256 is let through *)
InByteRange_Wide(b) == 0 <= b /\ b <= 256
(* line 103: bytes(payload) takes integers in range(0, 256) only *)
InByteRange(b) == 0 <= b /\ b <= 255

(* lines 94-103: the checks that make _send raise ValueError *)
SendRaises(cmd, payload) ==
    \/ TooLong(Len(payload))
    \/ \E i \in 1..Len(payload) : ~InByteRange(payload[i])

(* the message of the ValueError _send raises: line 100 comes before the   *)
(* bytes() conversion of line 103                                          *)
SendError(cmd, payload) ==
    IF TooLong(Len(payload)) THEN "Payload too long"
    ELSE "bytes must be in range(0, 256)"

Min(a, b) == IF a < b THEN a ELSE b

(* faulty variant: the fraction is dropped *)
RoundHalfEven_Truncated(num, den) == num \div den
(* round(): nearest integer, ties to even, of num/den *)
RoundHalfEven(num, den) ==
    LET q == num \div den
        r == num % den
    IN  IF (2 * r) > den \/ ((2 * r) = den /\ (q % 2) = 1) THEN q + 1 ELSE q

(* line 156 *)
BrightnessByte(value) == RoundHalfEven(value * 255, 100)

(* ---------------- state ---------------- *)
VARIABLES
    queue,       \* Queue contents, head first
    unfinished,  \* Queue.unfinished_tasks
    stop,        \* _BLEThread.stop
    ready,       \* _BLEThread.ready
    readyMark, \* Len(enqueued) when the connection was established, -1 before (history)
    blocking,    \* BLEController.blocking
    block,       \* the constructor's block argument
    wpc,         \* position of the worker in work()
    wframe,      \* work()'s local variable frame
    idle,        \* time() - prev_time in work(), saturating at TimerCap
    conn,        \* the BleakClient connection: "closed" or "open"
    cpc,         \* position of each caller thread
    stage,       \* what the caller does when its current _send returns
    result,      \* outcome of each caller's last finished call
    link,        \* frames the device received, in order (history)
    enqueued,    \* frames put on the queue, in order (history)
    sinceDone,   \* time() - completion time of the last write, -1 if none (history)
    began,       \* state of the worker when the caller's last call began (history)
    drainMark,   \* Len(enqueued) when the owner began to wait for the drain (history)
    failed,      \* a write to the link has raised (history)
    call,        \* the last call of a controller method and its arguments (history)
    fade,        \* fade()'s arguments, its loop variable i and the values it passed on
    sendsLeft,   \* puts the scenario still allows
    kaLeft       \* keep-alive writes the scenario still allows

vars == <<queue, unfinished, stop, ready, readyMark, blocking, block, wpc, wframe, idle,
          conn, cpc, stage, result, link, enqueued, sinceDone, began,
          drainMark, failed, call, fade, sendsLeft, kaLeft>>

queueVars == <<queue, unfinished, enqueued, sendsLeft>>
workerVars == <<stop, ready, readyMark, wpc, wframe, idle, conn, link, sinceDone, failed, kaLeft>>
callerVars == <<blocking, block, cpc, stage, result, began, drainMark, call, fade>>

NoCall == [by |-> "none", op |-> "none", args |-> <<>>, before |-> 0]
NoFade == [pc |-> "none", fade_in |-> FALSE, fade_out |-> FALSE,
           fade_amt |-> 0, fade_speed |-> 0, i |-> 0, ins |-> <<>>, outs |-> <<>>]

NoItem == [frame |-> <<>>, by |-> "none", n |-> 0]
KeepAliveItem == [frame |-> KeepAliveFrame, by |-> "worker", n |-> 0]

IsCommand(item) == item.frame[1] = 51
IsKeepAlive(item) == item.frame[1] = 170

CmdLink == SelectSeq(link, IsCommand)

SentBy(c) == Cardinality({i \in 1..Len(enqueued) : enqueued[i].by = c})

WorkerState ==
    CASE wpc \in {"failed_connect", "failed_write"} -> "crashed"
      [] wpc = "done" -> "stopped"
      [] OTHER -> "alive"

(* the state when __init__ has started the worker thread (line 71) *)
InitWith(sends, keepAlives) ==
    /\ queue = <<>>
    /\ unfinished = 0
    /\ stop = FALSE
    /\ ready = FALSE
    /\ readyMark = -1
    /\ blocking = FALSE          \* attribute assigned at the end of __init__
    /\ block \in BOOLEAN
    /\ wpc = "start"
    /\ wframe = NoItem
    /\ idle = 0
    /\ conn = "closed"
    /\ cpc = [c \in Callers |-> IF c = Owner THEN "ctor" ELSE "idle"]
    /\ stage = [c \in Callers |-> "none"]
    /\ result = [c \in Callers |-> "none"]
    /\ link = <<>>
    /\ enqueued = <<>>
    /\ sinceDone = -1
    /\ began = [c \in Callers |-> "none"]
    /\ drainMark = 0
    /\ failed = FALSE
    /\ call = NoCall
    /\ fade = NoFade
    /\ sendsLeft = sends
    /\ kaLeft = keepAlives

Init == InitWith(MaxSends, MaxKeepAlives)

(* ---------------- the clock ---------------- *)
(* faulty variant: due already at the interval *)
KeepAliveDue_AtInterval(elapsed) == elapsed >= KeepAliveInterval
(* line 40: time() > prev_time + 3 *)
KeepAliveDue(elapsed) == elapsed > KeepAliveInterval

(* d seconds pass; a scenario out of keep-alives ends before the next one   *)
(* falls due                                                               *)
Advance(d) ==
    /\ kaLeft > 0 \/ ~KeepAliveDue(Min(idle + d, TimerCap))
    /\ idle' = Min(idle + d, TimerCap)
    /\ sinceDone' = IF sinceDone = -1 THEN -1 ELSE Min(sinceDone + d, TimerCap)
    /\ UNCHANGED <<queueVars, callerVars,
                   stop, ready, readyMark, wpc, wframe, conn, link, failed, kaLeft>>

(* one second passes *)
Tick == Advance(1)

(* more than the keep-alive interval passes; the worker's only test of the *)
(* clock is KeepAliveDue, so this reaches every ordering of frames that    *)
(* one-second ticks reach                                                  *)
Elapse == Advance(TimerCap)

(* ---------------- _BLEThread.work ---------------- *)
(* line 30 *)
WorkerStart ==
    /\ wpc = "start"
    /\ idle' = 0
    /\ wpc' = "connecting"
    /\ UNCHANGED <<queueVars, callerVars,
                   stop, ready, readyMark, wframe, conn, link, sinceDone, failed, kaLeft>>

(* lines 32-33: __aenter__ succeeds *)
ConnectOk ==
    /\ wpc = "connecting"
    /\ conn' = "open"
    /\ ready' = TRUE
    /\ readyMark' = Len(enqueued)
    /\ wpc' = "loop"
    /\ UNCHANGED <<queueVars, callerVars,
                   stop, wframe, idle, link, sinceDone, failed, kaLeft>>

(* line 32: __aenter__ raises, work() and the thread end *)
ConnectFail ==
    /\ wpc = "connecting"
    /\ wpc' = "failed_connect"
    /\ UNCHANGED <<queueVars, callerVars,
                   stop, ready, readyMark, wframe, idle, conn, link, sinceDone, failed, kaLeft>>

(* faulty variant: the stop flag is never looked at *)
ExitLoop_Never(flag, q) == FALSE
(* faulty variant: the loop goes on until the queue is empty *)
ExitLoop_Drain(flag, q) == flag /\ q = <<>>
(* line 34: while not self.stop, whatever the queue holds *)
ExitLoop(flag, q) == flag

(* line 34: while not self.stop; on exit __aexit__ closes the connection *)
LoopCheck ==
    /\ wpc = "loop"
    /\ IF ExitLoop(stop, queue)
         THEN /\ wpc' = "done"
              /\ conn' = "closed"
         ELSE /\ wpc' = "poll"
              /\ conn' = conn
    /\ UNCHANGED <<queueVars, callerVars,
                   stop, ready, readyMark, wframe, idle, link, sinceDone, failed, kaLeft>>

(* faulty variant: the newest item is taken first *)
Dequeue_Lifo(q) == [item |-> q[Len(q)], rest |-> SubSeq(q, 1, Len(q) - 1)]
(* Queue.get_nowait: the item returned and the items left *)
Dequeue(q) == [item |-> Head(q), rest |-> Tail(q)]

(* lines 36-37: get_nowait returns an item *)
PollItem ==
    /\ wpc = "poll"
    /\ queue # <<>>
    /\ wframe' = Dequeue(queue).item
    /\ queue' = Dequeue(queue).rest
    /\ idle' = 0
    /\ wpc' = "write_cmd"
    /\ UNCHANGED <<unfinished, enqueued, sendsLeft, callerVars,
                   stop, ready, readyMark, conn, link, sinceDone, failed, kaLeft>>

(* faulty variant: Empty is raised whatever the queue holds *)
RaisesEmpty_Always(q) == TRUE
(* line 38: get_nowait raises Empty when the queue holds nothing *)
RaisesEmpty(q) == q = <<>>

(* lines 38-46: get_nowait raises Empty *)
PollEmpty ==
    /\ wpc = "poll"
    /\ RaisesEmpty(queue)
    /\ IF KeepAliveDue(idle)
         THEN /\ kaLeft > 0
              /\ kaLeft' = kaLeft - 1
              /\ wframe' = KeepAliveItem
              /\ wpc' = "write_ka"
         ELSE /\ kaLeft' = kaLeft
              /\ wframe' = wframe
              /\ wpc' = "loop"
    /\ UNCHANGED <<queueVars, callerVars,
                   stop, ready, readyMark, idle, conn, link, sinceDone, failed>>

(* lines 47-48: the keep-alive write completes *)
WriteKeepAliveOk ==
    /\ wpc = "write_ka"
    /\ link' = Append(link, wframe)
    /\ sinceDone' = 0
    /\ idle' = 0
    /\ wpc' = "loop"
    /\ UNCHANGED <<queueVars, callerVars,
                   stop, ready, readyMark, wframe, conn, failed, kaLeft>>

(* faulty variant: the exception is swallowed and the frame put back *)
AfterWriteFailure_Retry(q, frame) ==
    [wpc |-> "loop", queue |-> IF IsCommand(frame) THEN <<frame>> \o q ELSE q]
(* where write_gatt_char raising leaves the worker: the exception leaves   *)
(* the loop, the async with block and work(); nothing is put back          *)
AfterWriteFailure(q, frame) == [wpc |-> "failed_write", queue |-> q]

(* faulty variant: the connection is closed on the normal exit only *)
CloseOnRaise_Leak(c) == c
(* line 32: async with closes the connection when an exception leaves it *)
CloseOnRaise(c) == "closed"

(* line 47: the keep-alive write raises; __aexit__ closes the connection *)
WriteKeepAliveFail ==
    /\ wpc = "write_ka"
    /\ wpc' = AfterWriteFailure(queue, wframe).wpc
    /\ queue' = AfterWriteFailure(queue, wframe).queue
    /\ conn' = CloseOnRaise(conn)
    /\ failed' = TRUE
    /\ UNCHANGED <<unfinished, enqueued, sendsLeft, callerVars,
                   stop, ready, readyMark, wframe, idle, link, sinceDone, kaLeft>>

(* line 50: the command write completes *)
WriteCommandOk ==
    /\ wpc = "write_cmd"
    /\ link' = Append(link, wframe)
    /\ sinceDone' = 0
    /\ wpc' = "task_done"
    /\ UNCHANGED <<queueVars, callerVars,
                   stop, ready, readyMark, wframe, idle, conn, failed, kaLeft>>

(* line 50: the command write raises; __aexit__ closes the connection *)
WriteCommandFail ==
    /\ wpc = "write_cmd"
    /\ wpc' = AfterWriteFailure(queue, wframe).wpc
    /\ queue' = AfterWriteFailure(queue, wframe).queue
    /\ conn' = CloseOnRaise(conn)
    /\ failed' = TRUE
    /\ UNCHANGED <<unfinished, enqueued, sendsLeft, callerVars,
                   stop, ready, readyMark, wframe, idle, link, sinceDone, kaLeft>>

(* faulty variant: task_done is left out *)
TaskDoneCount_Kept(n) == n
(* Queue.task_done: unfinished_tasks -= 1 *)
TaskDoneCount(n) == n - 1

(* line 51 *)
TaskDone ==
    /\ wpc = "task_done"
    /\ unfinished' = TaskDoneCount(unfinished)
    /\ wpc' = "loop"
    /\ UNCHANGED <<queue, enqueued, sendsLeft, callerVars,
                   stop, ready, readyMark, wframe, idle, conn, link, sinceDone, failed, kaLeft>>

WorkerNext ==
    \/ WorkerStart
    \/ ConnectOk
    \/ ConnectFail
    \/ LoopCheck
    \/ PollItem
    \/ PollEmpty
    \/ WriteKeepAliveOk
    \/ WriteKeepAliveFail
    \/ WriteCommandOk
    \/ WriteCommandFail
    \/ TaskDone

(* ---------------- BLEController ---------------- *)
(* lines 74-81: wait for the worker if block, then self.blocking = True *)
CtorFinish ==
    /\ cpc[Owner] = "ctor"
    /\ block => ready
    /\ blocking' = TRUE
    /\ cpc' = [cpc EXCEPT ![Owner] = "idle"]
    /\ UNCHANGED <<queueVars, workerVars, block, stage, result, began, drainMark, call, fade>>

Constructed == cpc[Owner] # "ctor"

(* the history of calls: method, arguments, frames put before the call *)
Called(c, op, args) ==
    call' = [by |-> c, op |-> op, args |-> args, before |-> Len(enqueued)]

(* a call that raises ValueError(msg): nothing is put on the queue *)
Raise(c, from, msg) ==
    /\ Constructed
    /\ cpc[c] = from
    /\ result' = [result EXCEPT ![c] = msg]
    /\ began' = [began EXCEPT ![c] = WorkerState]
    /\ cpc' = [cpc EXCEPT ![c] = "idle"]
    /\ stage' = [stage EXCEPT ![c] = "none"]
    /\ UNCHANGED <<queueVars, workerVars, blocking, block, drainMark>>

(* lines 90-116: _send up to and including self._queue.put(frame);          *)
(* from is the caller's position, next what it does after _send returns    *)
SendPut(c, from, cmd, payload, next) ==
    IF SendRaises(cmd, payload)
      THEN Raise(c, from, SendError(cmd, payload))
      ELSE LET item == [frame |-> Encode(cmd, payload), by |-> c, n |-> SentBy(c) + 1]
           IN  /\ Constructed
               /\ cpc[c] = from
               /\ sendsLeft > 0
               /\ sendsLeft' = sendsLeft - 1
               /\ queue' = Append(queue, item)
               /\ unfinished' = unfinished + 1
               /\ enqueued' = Append(enqueued, item)
               /\ began' = [began EXCEPT ![c] = WorkerState]
               /\ result' = [result EXCEPT ![c] = "none"]
               /\ cpc' = [cpc EXCEPT ![c] = "sent"]
               /\ stage' = [stage EXCEPT ![c] = next]
               /\ UNCHANGED <<workerVars, blocking, block, drainMark>>

(* where a caller goes when _send returns *)
AfterSend(c) ==
    CASE stage[c] = "none" -> "idle"
      [] stage[c] = "disc_off" -> "disc_off"
      [] stage[c] = "turnoff" -> "cleanup"
      [] stage[c] = "fade" -> "fade"

StageAfterSend(c) == IF stage[c] = "turnoff" THEN "turnoff" ELSE "none"

(* faulty variant: the flag is ignored *)
ShouldJoin_Never(flag) == FALSE
(* line 119: if self.blocking *)
ShouldJoin(flag) == flag

(* lines 119-120: _send reads the flag and returns or goes on to join() *)
SendCheckBlocking(c) ==
    /\ cpc[c] = "sent"
    /\ IF ShouldJoin(blocking)
         THEN /\ cpc' = [cpc EXCEPT ![c] = "join"]
              /\ UNCHANGED <<result, stage>>
         ELSE /\ cpc' = [cpc EXCEPT ![c] = AfterSend(c)]
              /\ result' = [result EXCEPT ![c] = "ok"]
              /\ stage' = [stage EXCEPT ![c] = StageAfterSend(c)]
    /\ UNCHANGED <<queueVars, workerVars, blocking, block, began, drainMark, call, fade>>

(* faulty variant: join returns with one task unfinished *)
JoinReturns_OffByOne(n) == n <= 1
(* Queue.join(): returns once unfinished_tasks is zero *)
JoinReturns(n) == n = 0

(* line 120 *)
SendJoin(c) ==
    /\ cpc[c] = "join"
    /\ JoinReturns(unfinished)
    /\ cpc' = [cpc EXCEPT ![c] = AfterSend(c)]
    /\ result' = [result EXCEPT ![c] = "ok"]
    /\ stage' = [stage EXCEPT ![c] = StageAfterSend(c)]
    /\ UNCHANGED <<queueVars, workerVars, blocking, block, began, drainMark, call, fade>>

(* lines 144-146 *)
TurnOn(c) ==
    /\ SendPut(c, "idle", 1, <<1>>, "none")
    /\ Called(c, "turn_on", <<>>)
    /\ UNCHANGED fade

(* lines 140-142 *)
TurnOff(c) ==
    /\ SendPut(c, "idle", 1, <<0>>, "none")
    /\ Called(c, "turn_off", <<>>)
    /\ UNCHANGED fade

(* lines 148-157; from/next as in SendPut *)
SetBrightnessFrom(c, from, value, next) ==
    IF ~(0 <= value /\ value <= MaxBrightness)
      THEN Raise(c, from, "value must be between 0 and 100")
      ELSE SendPut(c, from, 4, <<BrightnessByte(value)>>, next)

SetBrightness(c, value) ==
    /\ SetBrightnessFrom(c, "idle", value, "none")
    /\ Called(c, "set_brightness", <<value>>)
    /\ UNCHANGED fade

(* lines 90-120 called directly *)
Send(c, cmd, payload) ==
    /\ SendPut(c, "idle", cmd, payload, "none")
    /\ Called(c, "_send", <<cmd>> \o payload)
    /\ UNCHANGED fade

(* lines 159-161 *)
SetRgb(c, r, g, b) ==
    /\ SendPut(c, "idle", 5, <<2, r, g, b>>, "none")
    /\ Called(c, "set_rgb", <<r, g, b>>)
    /\ UNCHANGED fade

(* range(start, end, step) goes on while i is short of end *)
InRange(i, end, step) == IF step > 0 THEN i < end ELSE i > end

(* lines 183-193: fade() is called, color is None; the loop of fade_in     *)
(* starts at 0                                                             *)
FadeBegin(fade_in, fade_out, fade_amt, fade_speed) ==
    /\ Constructed
    /\ cpc[Owner] = "idle"
    /\ cpc' = [cpc EXCEPT ![Owner] = "fade"]
    /\ result' = [result EXCEPT ![Owner] = "none"]
    /\ fade' = [pc |-> "in", fade_in |-> fade_in, fade_out |-> fade_out,
                fade_amt |-> fade_amt, fade_speed |-> fade_speed,
                i |-> 0, ins |-> <<>>, outs |-> <<>>]
    /\ Called(Owner, "fade", <<fade_amt, fade_speed>>)
    /\ UNCHANGED <<queueVars, workerVars, blocking, block, stage, began, drainMark>>

(* lines 194-196: for i in range(0, fade_amt + 1, fade_speed):             *)
(* self.set_brightness(i); after the loop, fade_out starts at fade_amt     *)
FadeIn ==
    /\ cpc[Owner] = "fade"
    /\ fade.pc = "in"
    /\ IF fade.fade_in /\ InRange(fade.i, fade.fade_amt + 1, fade.fade_speed)
         THEN /\ SetBrightnessFrom(Owner, "fade", fade.i, "fade")
              /\ Called(Owner, "set_brightness", <<fade.i>>)
              /\ fade' = [fade EXCEPT !.i = fade.i + fade.fade_speed,
                                      !.ins = Append(fade.ins, fade.i),
                                      !.pc = IF cpc'[Owner] = "idle" THEN "raised" ELSE "in"]
         ELSE /\ fade' = [fade EXCEPT !.pc = "out", !.i = fade.fade_amt]
              /\ UNCHANGED <<queueVars, workerVars, blocking, block, cpc, stage,
                             result, began, drainMark, call>>

(* lines 197-199: for i in range(fade_amt, -1, -fade_speed):               *)
(* self.set_brightness(i); after the loop fade() returns                   *)
FadeOut ==
    /\ cpc[Owner] = "fade"
    /\ fade.pc = "out"
    /\ IF fade.fade_out /\ InRange(fade.i, -1, -fade.fade_speed)
         THEN /\ SetBrightnessFrom(Owner, "fade", fade.i, "fade")
              /\ Called(Owner, "set_brightness", <<fade.i>>)
              /\ fade' = [fade EXCEPT !.i = fade.i - fade.fade_speed,
                                      !.outs = Append(fade.outs, fade.i),
                                      !.pc = IF cpc'[Owner] = "idle" THEN "raised" ELSE "out"]
         ELSE /\ fade' = [fade EXCEPT !.pc = "done"]
              /\ cpc' = [cpc EXCEPT ![Owner] = "idle"]
              /\ result' = [result EXCEPT ![Owner] = "ok"]
              /\ UNCHANGED <<queueVars, workerVars, blocking, block, stage,
                             began, drainMark, call>>

(* the user assigns controller.blocking (line 80: user-editable vars) *)
SetBlocking(b) ==
    /\ cpc[Owner] = "idle"
    /\ blocking # b
    /\ blocking' = b
    /\ UNCHANGED <<queueVars, workerVars, block, cpc, stage, result, began, drainMark, call, fade>>

(* faulty variant: the flag is left as it was *)
DisconnectBlocking_Kept(turn_off, old) == old
(* lines 134-135: the blocking flag after "if turn_off: self.blocking = True" *)
DisconnectBlocking(turn_off, old) == IF turn_off THEN TRUE ELSE old

(* lines 131-135; the owner disconnects once *)
Disconnect(turn_off) ==
    /\ cpc[Owner] = "idle"
    /\ ~stop
    /\ blocking' = DisconnectBlocking(turn_off, blocking)
    /\ cpc' = [cpc EXCEPT ![Owner] = IF turn_off THEN "disc_bright" ELSE "cleanup"]
    /\ stage' = [stage EXCEPT ![Owner] = IF turn_off THEN "none" ELSE "plain"]
    /\ UNCHANGED <<queueVars, workerVars, block, result, began, drainMark, call, fade>>

(* line 136 *)
DisconnectBrightness ==
    /\ SetBrightnessFrom(Owner, "disc_bright", 100, "disc_off")
    /\ Called(Owner, "set_brightness", <<100>>)
    /\ UNCHANGED fade

(* line 137 *)
DisconnectTurnOff ==
    /\ SendPut(Owner, "disc_off", 1, <<0>>, "turnoff")
    /\ Called(Owner, "turn_off", <<>>)
    /\ UNCHANGED fade

(* the owner waits for the queue to drain (Queue.join) before disconnect() *)
DrainBegin ==
    /\ cpc[Owner] = "idle"
    /\ ~stop
    /\ cpc' = [cpc EXCEPT ![Owner] = "drain"]
    /\ drainMark' = Len(enqueued)
    /\ UNCHANGED <<queueVars, workerVars, blocking, block, stage, result, began, call, fade>>

DrainJoin ==
    /\ cpc[Owner] = "drain"
    /\ JoinReturns(unfinished)
    /\ cpc' = [cpc EXCEPT ![Owner] = "cleanup"]
    /\ stage' = [stage EXCEPT ![Owner] = "drained"]
    /\ UNCHANGED <<queueVars, workerVars, blocking, block, result, began, drainMark, call, fade>>

(* lines 83-85, 56-58, 138: _cleanup -> stop_work *)
Cleanup ==
    /\ cpc[Owner] = "cleanup"
    /\ stop' = TRUE
    /\ cpc' = [cpc EXCEPT ![Owner] = "idle"]
    /\ stage' = [stage EXCEPT ![Owner] = "none"]
    /\ UNCHANGED <<queueVars, blocking, block, result, began, drainMark, call, fade,
                   ready, readyMark, wpc, wframe, idle, conn, link, sinceDone, failed, kaLeft>>

(* the steps of one caller thread inside _send *)
SendSteps(c) == SendCheckBlocking(c) \/ SendJoin(c)

(* the owner thread: every operation *)
OwnerNext ==
    \/ CtorFinish
    \/ TurnOn(Owner)
    \/ TurnOff(Owner)
    \/ \E v \in BrightnessInputs : SetBrightness(Owner, v)
    \/ SendSteps(Owner)
    \/ \E b \in BOOLEAN : SetBlocking(b)
    \/ \E t \in BOOLEAN : Disconnect(t)
    \/ DisconnectBrightness
    \/ DisconnectTurnOff
    \/ DrainBegin
    \/ DrainJoin
    \/ Cleanup

Next == Elapse \/ WorkerNext \/ OwnerNext

Spec == Init /\ [][Next]_vars

(* owner and producer send concurrently *)
InitConcurrent == InitWith(MaxConcurrentSends, MaxKeepAlives)

ConcurrentNext ==
    \/ CtorFinish
    \/ TurnOn(Owner)
    \/ TurnOff(Producer)
    \/ \E c \in Callers : SendSteps(c)
    \/ \E b \in BOOLEAN : SetBlocking(b)

NextConcurrent == Elapse \/ WorkerNext \/ ConcurrentNext

SpecConcurrent == InitConcurrent /\ [][NextConcurrent]_vars

(* the keep-alive timing, second by second *)
InitTimed == InitWith(MaxTimedSends, MaxTimedKeepAlives)

TimedNext ==
    \/ CtorFinish
    \/ TurnOn(Owner)
    \/ SendSteps(Owner)

NextTimed == Tick \/ WorkerNext \/ TimedNext

SpecTimed == InitTimed /\ [][NextTimed]_vars

(* one call of _send, set_brightness or set_rgb, on arguments of every     *)
(* kind, and the worker that writes its frame                              *)
FirstCall == call = NoCall

CodecNext ==
    \/ CtorFinish
    \/ FirstCall /\ \E cmd \in CmdInputs, payload \in PayloadInputs : Send(Owner, cmd, payload)
    \/ FirstCall /\ \E v \in PercentInputs : SetBrightness(Owner, v)
    \/ FirstCall /\ \E r, g, b \in ByteInputs : SetRgb(Owner, r, g, b)
    \/ SendSteps(Owner)

NextCodec == Elapse \/ WorkerNext \/ CodecNext

SpecCodec == Init /\ [][NextCodec]_vars

(* one call of fade() on a controller in non-blocking mode whose worker    *)
(* has not been scheduled yet                                              *)
InitFade == InitWith(2 * (MaxFadeAmount + 1), MaxKeepAlives)

NextFade ==
    \/ CtorFinish
    \/ \E b \in BOOLEAN : SetBlocking(b)
    \/ FirstCall /\ \E fade_in, fade_out \in BOOLEAN, fade_amt \in FadeAmounts,
                        fade_speed \in FadeSpeeds :
                          FadeBegin(fade_in, fade_out, fade_amt, fade_speed)
    \/ FadeIn
    \/ FadeOut
    \/ SendCheckBlocking(Owner)

SpecFade == InitFade /\ [][NextFade]_vars

(* the whole program with a worker thread that keeps being scheduled and   *)
(* whose awaits (connect, write) all return or raise                       *)
InitFair == InitWith(MaxFairSends, MaxFairKeepAlives)

FairSpec == InitFair /\ [][Next]_vars /\ WF_vars(WorkerNext)

(* ---------------- properties ---------------- *)
Prefix(s, t) == Len(s) <= Len(t) /\ \A i \in 1..Len(s) : s[i] = t[i]

Written(item) == \E j \in 1..Len(link) : link[j] = item

(* the first k frames put on the queue have been written to the link *)
WrittenThrough(k) == \A i \in 1..k : Written(enqueued[i])

(* index in enqueued of the last frame c put, 0 if none *)
LastPut(c) ==
    LET mine == {i \in 1..Len(enqueued) : enqueued[i].by = c}
    IN  IF mine = {} THEN 0 ELSE CHOOSE i \in mine : \A j \in mine : j <= i

InSend(c) == cpc[c] \in {"sent", "join"}

LastIsKeepAlive == link # <<>> /\ IsKeepAlive(link[Len(link)])

(* C1: the command frames written to the link are, in order, a prefix of   *)
(* the frames in the order they were put on the queue (nothing reordered,  *)
(* duplicated, dropped in the middle or coalesced), and the frames of each *)
(* caller thread appear in that thread's call order.                       *)
C1_FifoDelivery ==
    /\ Prefix(CmdLink, enqueued)
    /\ \A i, j \in 1..Len(CmdLink) :
         (i < j /\ CmdLink[i].by = CmdLink[j].by) => CmdLink[i].n < CmdLink[j].n

(* producer, owner, producer frames written, with a keep-alive among them *)
C1_Witness ==
    /\ Len(CmdLink) = 3
    /\ CmdLink[1].by = Producer
    /\ CmdLink[2].by = Owner
    /\ CmdLink[3].by = Producer
    /\ Len(link) > Len(CmdLink)

(* C2: a _send that reads the blocking flag as on, or that is in join(),   *)
(* returns only in a step after which the frame it put and every frame put *)
(* before it have been written to the link.                                *)
C2_BlockingSend ==
    [][\A c \in Callers :
         (InSend(c) /\ ~InSend(c)' /\ (blocking \/ cpc[c] = "join"))
           => WrittenThrough(LastPut(c))']_vars

(* the producer's blocking send is about to return, behind an owner frame *)
C2_Witness ==
    /\ cpc[Producer] = "join"
    /\ blocking
    /\ unfinished = 0
    /\ LastPut(Producer) = 3
    /\ enqueued[2].by = Owner
    /\ WrittenThrough(3)

(* C3 as stated: at most one keep-alive is written between two command     *)
(* frames, however long the idle period: no two keep-alives are adjacent   *)
(* on the link.                                                            *)
C3_OneKeepAlivePerIdlePeriod ==
    \A i \in 1..(Len(link) - 1) : ~(IsKeepAlive(link[i]) /\ IsKeepAlive(link[i + 1]))

(* C3 amended: a poll of the empty queue more than KeepAliveInterval       *)
(* seconds after prev_time always starts a keep-alive write, and a         *)
(* keep-alive that follows a keep-alive is started more than               *)
(* KeepAliveInterval seconds after the previous one completed: one         *)
(* keep-alive per interval of idleness, not one per idle period.           *)
C3_KeepAlivePerInterval ==
    /\ []((wpc = "write_ka" /\ LastIsKeepAlive) => sinceDone > KeepAliveInterval)
    /\ [][(wpc = "poll" /\ wpc' # "poll" /\ queue = <<>> /\ idle > KeepAliveInterval)
            => wpc' = "write_ka"]_vars

(* a second keep-alive in a row is being written *)
C3_Witness ==
    /\ wpc = "write_ka"
    /\ LastIsKeepAlive
    /\ ready

(* C4: a keep-alive is written only when more than KeepAliveInterval       *)
(* seconds have passed since the last write to the link completed.         *)
C4_KeepAliveAfterQuietLink ==
    wpc = "write_ka" => (sinceDone = -1 \/ sinceDone > KeepAliveInterval)

(* C5: a send begun after disconnect() with the worker stopped neither     *)
(* returns successfully nor stays in join() with no way out.               *)
C5_SendAfterDisconnectFails ==
    \A c \in Callers :
      began[c] = "stopped" =>
        /\ result[c] # "ok"
        /\ cpc[c] = "join" => ENABLED SendJoin(c)

(* C6: when the connect fails, the constructor called with block=True is   *)
(* not left waiting for the ready flag with no step to take.               *)
C6_ConnectFailureSurfaced ==
    (block /\ cpc[Owner] = "ctor" /\ wpc = "failed_connect") => ENABLED CtorFinish

(* C7: after a write to the link has failed, a caller in join() can leave  *)
(* it, and a send begun afterwards does not return successfully.           *)
C7_WriteFailureObservable ==
    failed =>
      \A c \in Callers :
        /\ cpc[c] = "join" => ENABLED SendJoin(c)
        /\ began[c] = "crashed" => result[c] # "ok"

(* C8: once a write has failed the worker is out of its loop for good, the *)
(* failed command frame is not on the link, and no frame is dequeued or    *)
(* written afterwards.                                                     *)
C8_WriteFailureFatal ==
    /\ [](failed => wpc = "failed_write")
    /\ []((failed /\ IsCommand(wframe)) => ~Written(wframe))
    /\ [][failed => (link' = link /\ Len(queue') >= Len(queue))]_vars

(* a command write failed with another frame still queued *)
C8_Witness ==
    /\ failed
    /\ IsCommand(wframe)
    /\ queue # <<>>
    /\ link # <<>>

(* C9: when the owner has waited for the drain and is about to call        *)
(* disconnect(), every frame put before the wait began is on the link and  *)
(* the stop flag is not yet set.                                           *)
C9_DrainBeforeDisconnect ==
    (cpc[Owner] = "cleanup" /\ stage[Owner] = "drained")
      => (WrittenThrough(drainMark) /\ ~stop)

(* three frames sent without blocking, drained, stop about to be set *)
C9_Witness ==
    /\ cpc[Owner] = "cleanup"
    /\ stage[Owner] = "drained"
    /\ drainMark = 3
    /\ ~blocking
    /\ wpc \in {"loop", "poll"}

(* C10: when disconnect(turn_off=True) reaches _cleanup, the blocking flag *)
(* is on, the stop flag is not yet set, and the brightness-100 frame and   *)
(* then the power-off frame are the last frames put and everything put has *)
(* been written, in order.                                                 *)
C10_TurnOffBeforeStop ==
    (cpc[Owner] = "cleanup" /\ stage[Owner] = "turnoff")
      => /\ blocking
         /\ ~stop
         /\ Len(enqueued) >= 2
         /\ enqueued[Len(enqueued) - 1].frame = Encode(4, <<255>>)
         /\ enqueued[Len(enqueued)].frame = Encode(1, <<0>>)
         /\ CmdLink = enqueued

(* disconnect(True) after an earlier frame, on a ready worker *)
C10_Witness ==
    /\ cpc[Owner] = "cleanup"
    /\ stage[Owner] = "turnoff"
    /\ Len(enqueued) = 3
    /\ ready
    /\ wpc \in {"loop", "poll"}

(* C11: once the stop flag is set, a worker that keeps running leaves the  *)
(* service loop: it ends (stopped, or crashed by a connect or write that   *)
(* raised) with the connection closed, whether or not frames are queued.   *)
C11_StopEndsWorker == stop ~> (WorkerState # "alive" /\ conn = "closed")

(* the worker connected, stopped on the flag and left a frame in the queue *)
C11_Witness ==
    /\ stop /\ ready
    /\ WorkerState = "stopped"
    /\ conn = "closed"
    /\ queue # <<>>

(* C12: a worker that has ended, by the stop flag or by a write that       *)
(* raised, has closed the connection it opened.                            *)
C12_ScopedConnection == WorkerState # "alive" => conn = "closed"

(* a keep-alive write raised after a successful connect *)
C12_Witness ==
    /\ ready /\ failed
    /\ WorkerState = "crashed"
    /\ IsKeepAlive(wframe)
    /\ conn = "closed"

(* the frame the last call put, if it put one *)
CallPut == Len(enqueued) > call.before
CallFrame == enqueued[call.before + 1].frame
CallPutNothing == Len(enqueued) = call.before /\ cpc[call.by] = "idle"

Bit(x, k) == (x \div (2 ^ k)) % 2

(* bit by bit, the last byte is the parity of the bytes before it *)
XorParity(f) ==
    /\ f[Len(f)] \in 0..255
    /\ \A k \in 0..7 :
          Bit(f[Len(f)], k) = Cardinality({i \in 1..(Len(f) - 1) : Bit(f[i], k) = 1}) % 2

(* 20 bytes: two head bytes, the payload, zeros up to byte 18, the XOR *)
WellFormed(f, b0, b1, payload) ==
    /\ Len(f) = FrameBody + 1
    /\ f[1] = b0
    /\ f[2] = b1
    /\ \A i \in 1..Len(payload) : f[2 + i] = payload[i]
    /\ \A i \in (Len(payload) + 3)..FrameBody : f[i] = 0
    /\ XorParity(f)

AllBytes(seq) == \A i \in 1..Len(seq) : seq[i] \in 0..255

(* b is an integer nearest to num/den *)
Nearest(b, num, den) ==
    /\ 2 * ((den * b) - num) <= den
    /\ 2 * (num - (den * b)) <= den

(* C13: a call of _send with a command byte and a payload of 0 to 17 bytes *)
(* puts a frame of 20 bytes: 0x33, the command byte, the payload, zeros up *)
(* to byte 18, and the XOR of bytes 0..18; every keep-alive frame the      *)
(* worker builds or writes is 0xAA, 0x01, zeros and the XOR.               *)
C13_FrameFormat ==
    /\ (/\ call.op = "_send"
        /\ call.args[1] \in 0..255
        /\ Len(Tail(call.args)) <= MaxPayload
        /\ AllBytes(Tail(call.args)))
         => (CallPut /\ WellFormed(CallFrame, 51, call.args[1], Tail(call.args)))
    /\ \A i \in 1..Len(link) :
          IsKeepAlive(link[i]) => WellFormed(link[i].frame, 170, 1, <<>>)
    /\ wpc = "write_ka" => WellFormed(wframe.frame, 170, 1, <<>>)

(* a _send of command 255 with 17 bytes of payload was written after a     *)
(* keep-alive                                                              *)
C13_Witness ==
    /\ call.op = "_send"
    /\ call.args[1] = 255
    /\ Len(call.args) = MaxPayload + 1
    /\ call.args[2] = 37
    /\ Len(link) = 2
    /\ IsKeepAlive(link[1])
    /\ link[2].frame = CallFrame

(* C14: a call of _send with more than 17 bytes of payload raises          *)
(* ValueError('Payload too long') and puts nothing on the queue.           *)
C14_TooLongRejected ==
    (call.op = "_send" /\ Len(Tail(call.args)) > MaxPayload)
      => (/\ result[call.by] = "Payload too long"
          /\ CallPutNothing
          /\ queue = <<>>
          /\ CmdLink = <<>>)

(* _send with 18 bytes raised; the worker went on to write a keep-alive    *)
C14_Witness ==
    /\ call.op = "_send"
    /\ Len(Tail(call.args)) = MaxPayload + 1
    /\ result[Owner] = "Payload too long"
    /\ link = <<KeepAliveItem>>

(* C15 as stated: a call of _send with an integer command outside 0..255   *)
(* raises and puts nothing on the queue.                                   *)
C15_CommandOutOfRangeRejected ==
    (call.op = "_send" /\ call.args[1] \notin 0..255)
      => (result[call.by] \notin {"none", "ok"} /\ CallPutNothing)

(* C16: set_brightness(v) with v outside [0, 100] raises and puts nothing; *)
(* with v in [0, 100] it puts one frame of command 0x04 whose one payload  *)
(* byte is an integer nearest to v * 255 / 100, 0 for 0 and 255 for 100.   *)
C16_SetBrightness ==
    call.op = "set_brightness" =>
      LET v == call.args[1]
      IN  IF v < 0 \/ v > 100
            THEN /\ result[call.by] = "value must be between 0 and 100"
                 /\ CallPutNothing
            ELSE /\ Len(enqueued) = call.before + 1
                 /\ WellFormed(CallFrame, 51, 4, <<CallFrame[3]>>)
                 /\ Nearest(CallFrame[3], v * 255, 100)
                 /\ v = 0 => CallFrame[3] = 0
                 /\ v = 100 => CallFrame[3] = 255

(* set_brightness(30), half way between 76 and 77, was written as 76 *)
C16_Witness ==
    /\ call.op = "set_brightness"
    /\ call.args = <<30>>
    /\ Len(link) > 0
    /\ link[Len(link)].frame = CallFrame
    /\ CallFrame[3] = 76

(* C17: set_rgb(r, g, b) with every component in 0..255 puts one frame of  *)
(* command 0x05 and payload 0x02, r, g, b; with a component outside 0..255 *)
(* it raises the ValueError of bytes() and puts nothing.                   *)
C17_SetRgb ==
    call.op = "set_rgb" =>
      IF AllBytes(call.args)
        THEN /\ Len(enqueued) = call.before + 1
             /\ WellFormed(CallFrame, 51, 5, <<2>> \o call.args)
        ELSE /\ result[call.by] = "bytes must be in range(0, 256)"
             /\ CallPutNothing
             /\ queue = <<>>

(* set_rgb(255, 0, 256) raised; the worker has connected *)
C17_Witness ==
    /\ call.op = "set_rgb"
    /\ call.args = <<255, 0, 256>>
    /\ result[Owner] = "bytes must be in range(0, 256)"
    /\ enqueued = <<>>
    /\ ready

(* C18 as stated: a finished fade-in made its set_brightness calls from 0  *)
(* up to fade_amt, a finished fade-out from fade_amt down to 0, each one   *)
(* fade_speed from the one before.                                         *)
C18_FadeRamps ==
    /\ (fade.pc \in {"out", "done"} /\ fade.fade_in)
         => (/\ fade.ins # <<>>
             /\ fade.ins[1] = 0
             /\ fade.ins[Len(fade.ins)] = fade.fade_amt
             /\ \A k \in 2..Len(fade.ins) : fade.ins[k] = fade.ins[k - 1] + fade.fade_speed)
    /\ (fade.pc = "done" /\ fade.fade_out)
         => (/\ fade.outs # <<>>
             /\ fade.outs[1] = fade.fade_amt
             /\ fade.outs[Len(fade.outs)] = 0
             /\ \A k \in 2..Len(fade.outs) : fade.outs[k] = fade.outs[k - 1] - fade.fade_speed)

(* C19: the stop flag is never cleared; the loop check that sees it ends   *)
(* the worker whatever the queue holds; a worker that has ended writes     *)
(* and dequeues nothing more; a write in flight under stop ends by its own *)
(* completion or failure.                                                  *)
C19_StopOneWay ==
    [][ /\ stop => stop'
        /\ (stop /\ wpc = "loop" /\ wpc' # wpc) => (wpc' = "done" /\ queue' = queue)
        /\ wpc = "done" => (wpc' = "done" /\ link' = link /\ Prefix(queue, queue'))
        /\ (stop /\ wpc \in {"write_cmd", "write_ka"} /\ wpc' # wpc)
              => (link' = Append(link, wframe) \/ failed')
      ]_vars

(* the worker stopped after writing a frame, with frames of non-blocking   *)
(* sends still in the queue                                                *)
C19_Witness ==
    /\ stop /\ ~blocking
    /\ wpc = "done"
    /\ link # <<>>
    /\ queue # <<>>

(* C20 as stated: the unfinished count is at all times the frames put less *)
(* the command frames written.                                             *)
C20_UnfinishedIsPutsLessWrites == unfinished = Len(enqueued) - Len(CmdLink)

(* C20: the unfinished count is the frames put less the command frames     *)
(* written, plus one between a command write's completion and its          *)
(* task_done; it is never negative, and only task_done lowers it, by one,  *)
(* for the command frame just written.                                     *)
C20_DrainAccounting ==
    /\ unfinished >= 0
    /\ unfinished = Len(enqueued) - Len(CmdLink)
                      + (IF wpc = "task_done" THEN 1 ELSE 0)
    /\ wpc = "task_done" => (link # <<>> /\ link[Len(link)] = wframe /\ IsCommand(wframe))

(* a keep-alive and a command frame were written and the count is back at  *)
(* zero                                                                    *)
C20_Witness ==
    /\ unfinished = 0
    /\ Len(CmdLink) > 0
    /\ Len(CmdLink) < Len(link)
    /\ wpc = "loop"

(* the i-th frame put is on the link, being written, or still queued *)
Kept(i) ==
    \/ i <= Len(CmdLink) /\ CmdLink[i] = enqueued[i]
    \/ wpc \in {"write_cmd", "failed_write"} /\ wframe = enqueued[i]
    \/ \E k \in 1..Len(queue) : queue[k] = enqueued[i]

(* C21: until the connection is established nothing is written and every   *)
(* frame put is in the queue; afterwards the frames put before it are the  *)
(* first things written, in the order they were put, each one on the link, *)
(* being written or still queued, and no keep-alive is started before the  *)
(* last of them is written.                                                *)
C21_EarlyFramesKept ==
    /\ ~ready => (link = <<>> /\ queue = enqueued)
    /\ ready =>
          /\ \A j \in 1..Min(Len(link), readyMark) : link[j] = enqueued[j]
          /\ \A i \in 1..readyMark : Kept(i)
          /\ wpc = "write_ka" => Len(link) >= readyMark

(* constructed with block=False, the owner put two frames without waiting  *)
(* before the connection was established; both were written, then a        *)
(* keep-alive                                                              *)
C21_Witness ==
    /\ ~block
    /\ readyMark = 2
    /\ enqueued[1].by = Owner
    /\ enqueued[2].by = Owner
    /\ Len(link) = 3
    /\ link[1] = enqueued[1]
    /\ link[2] = enqueued[2]
    /\ IsKeepAlive(link[3])

====
